---------------------------- MODULE Spec2Model ----------------------------
(***************************************************************************)
(* Model of the SDL Viterbi decoder (src/SDLViterbiDecFix.cpp): the        *)
(* de-puncturer, the branch metric unit, the add-compare-select primitive  *)
(* and the viterbi() routine (branch metric loop, trellis recursion, best  *)
(* state search, traceback).                                               *)
(*                                                                         *)
(* A C array a of `size` cells is a sequence of length `size`: cell a[i]   *)
(* of the source is a[i + 1] here, read with Rd and stored to with St.     *)
(* The survivor memory, a flat array of traceLen * NUM_STATES cells, is    *)
(* kept in pages of NUM_STATES cells: cell i is page i \div NUM_STATES,    *)
(* place i % NUM_STATES (RdP, StP).                                        *)
(*                                                                         *)
(* TLC's integers are 32-bit signed, so the C `unsigned` arithmetic of the *)
(* source is written as integer arithmetic; every place where the C value  *)
(* is reduced modulo 2^32 says so and says why the integer is the same.    *)
(***************************************************************************)
EXTENDS Integers, Sequences, FiniteSets

(***************************************************************************)
(* Program constants.                                                      *)
(***************************************************************************)
STATE_LEN == 6

NUM_STATES == 64

NUM_BUTTERFLIES == 32

\* Soft inputs are documented as 8-bit signed numbers.
SOFT_MIN == -128

SOFT_MAX == 127

\* Branch metrics saturate to 6-bit signed, symmetric.
BM_SAT == 31

\* Path metrics are documented as 9-bit unsigned numbers.
PM_TOP == 511

\* labels[s00] of the source is labels[s00 + 1] here.
labels ==
  << 0, 1, 3, 2, 3, 2, 0, 1, 0, 1, 3, 2, 3, 2, 0, 1,
     2, 3, 1, 0, 1, 0, 2, 3, 2, 3, 1, 0, 1, 0, 2, 3 >>

(***************************************************************************)
(* Bounds of the model.                                                    *)
(***************************************************************************)
\* Greatest information block length tried (block lengths are multiples of 3).
MaxInfoLen == 15

\* Greatest traceback parameter L tried.
MaxL == 12

\* Number of messages (and as many complemented messages) per block length.
NumMsgs == 2

\* Amplitude of the noiseless soft values.
SoftAmp == 100

\* Unit calls of ACS: path metrics 0..MaxUnitPm and PM_TOP-MaxUnitPm..PM_TOP.
MaxUnitPm == 3

\* Unit calls of ACS: branch metrics -MaxUnitBm..MaxUnitBm.
MaxUnitBm == 4

\* The calls followed to their end under fairness: blocks of at most
\* ShortInfoLen bits, latencies of at most ShortL.
ShortInfoLen == 6
ShortL == 7

\* FifoWithTimeTrack<T, N>: the number N of elements of the storage.
FifoN == 3

\* The values written to a FIFO are 1 .. MaxVal at most.
MaxVal == 7

\* The calls of reset() made on a FIFO.
MaxResets == 2

(***************************************************************************)
(* Bit operations and arrays.                                              *)
(*                                                                         *)
(* A loop for (i = lo; i < hi; i++) of the source is an operator           *)
(* Loop(acc, lo, hi) that applies the loop body to acc for i = lo, ...,    *)
(* hi-1 in increasing order, each pass on the result of the one before.    *)
(* It splits the range in two halves and runs the second on the result of  *)
(* the first; binding that result as the element of a one-element set      *)
(* makes TLC compute it once.                                              *)
(***************************************************************************)
RECURSIVE BitOr(_, _)
BitOr(a, b) ==
  IF a = 0 THEN b
  ELSE IF b = 0 THEN a
  ELSE (IF a % 2 = 1 \/ b % 2 = 1 THEN 1 ELSE 0) + 2 * BitOr(a \div 2, b \div 2)

RECURSIVE BitAnd(_, _)
BitAnd(a, b) ==
  IF a = 0 \/ b = 0 THEN 0
  ELSE (IF a % 2 = 1 /\ b % 2 = 1 THEN 1 ELSE 0) + 2 * BitAnd(a \div 2, b \div 2)

\* x >> n on a two's complement int (arithmetic shift): floor division.
RECURSIVE Shr(_, _)
Shr(x, n) == IF n = 0 THEN x ELSE Shr(x \div 2, n - 1)

RECURSIVE Shl(_, _)
Shl(x, n) == IF n = 0 THEN x ELSE Shl(2 * x, n - 1)

\* An array of `size` cells that all hold v.
Filled(size, v) == [i \in 1 .. size |-> v]

InArray(buf, i) == i >= 0 /\ i < Len(buf)

\* buf[i], or `other` when i is outside the array.
Rd(buf, i, other) == IF InArray(buf, i) THEN buf[i + 1] ELSE other

\* buf[i] = v; a store outside the array does not land in it.
St(buf, i, v) == IF InArray(buf, i) THEN [buf EXCEPT ![i + 1] = v] ELSE buf

\* An array of pages * NUM_STATES cells that all hold v, in pages.
FilledP(pages, v) == [r \in 1 .. pages |-> [c \in 1 .. NUM_STATES |-> v]]

InArrayP(buf, i) == i >= 0 /\ i < Len(buf) * NUM_STATES

RdP(buf, i, other) ==
  IF InArrayP(buf, i) THEN buf[(i \div NUM_STATES) + 1][(i % NUM_STATES) + 1]
                      ELSE other

StP(buf, i, v) ==
  IF InArrayP(buf, i)
    THEN [buf EXCEPT ![(i \div NUM_STATES) + 1][(i % NUM_STATES) + 1] = v]
    ELSE buf

(***************************************************************************)
(* branchMetric                                                            *)
(***************************************************************************)
\* bm = (2*bit1-1)*soft1 + (2*bit2-1)*soft2.  bit1 and bit2 are unsigned, so
\* C computes the sum modulo 2^32 and converts it to int; the result is the
\* integer below because its magnitude is far below 2^31.
BranchMetricRaw(soft1, soft2, label) ==
  LET bit1 == BitAnd(label, 1)
      bit2 == BitAnd(Shr(label, 1), 1)
  IN  (2 * bit1 - 1) * soft1 + (2 * bit2 - 1) * soft2

\* Rounding without the offset: bm = bm >> 2.
BranchMetricRoundTrunc(raw) == Shr(raw, 2)

\* bm = (bm + 2) >> 2
BranchMetricRound(raw) == Shr(raw + 2, 2)

\* No saturation.
BranchMetricSatOff(bm) == bm

\* if (bm > 31) bm = 31; if (bm < -31) bm = -31;
BranchMetricSat(bm) ==
  LET hi == IF bm > BM_SAT THEN BM_SAT ELSE bm
  IN  IF hi < -BM_SAT THEN -BM_SAT ELSE hi

branchMetric(soft1, soft2, label) ==
  BranchMetricSat(BranchMetricRound(BranchMetricRaw(soft1, soft2, label)))

(***************************************************************************)
(* ACS                                                                     *)
(***************************************************************************)
\* The comparison reversed: the smaller candidate survives.
ACSCompareReversed(pm00, pm01, bm0, bm1) ==
  LET cm0 == pm00 + bm0
      cm1 == pm01 + bm1
  IN  IF cm0 < cm1 THEN [pm |-> cm0, surv |-> 0] ELSE [pm |-> cm1, surv |-> 1]

\* A tie goes to the path from s00.
ACSTieToFirst(pm00, pm01, bm0, bm1) ==
  LET cm0 == pm00 + bm0
      cm1 == pm01 + bm1
  IN  IF cm0 >= cm1 THEN [pm |-> cm0, surv |-> 0] ELSE [pm |-> cm1, surv |-> 1]

\* cm0 = pm00 + bm0 is an unsigned sum converted to int: the integer sum, as
\* path metrics stay far below 2^31.  The (unsigned) cast of the selected
\* metric is undone by the int return type.
ACS(pm00, pm01, bm0, bm1) ==
  LET cm0 == pm00 + bm0
      cm1 == pm01 + bm1
  IN  IF cm0 > cm1 THEN [pm |-> cm0, surv |-> 0] ELSE [pm |-> cm1, surv |-> 1]

(***************************************************************************)
(* State.                                                                  *)
(*   pc        position of the running call: "idle", "metrics", "pminit",  *)
(*             "recursion", "findmax", "traceback", "done", "fault"        *)
(*   infoLen, codeLen, SIBuff1, L   the arguments of viterbi()             *)
(*   dataBuff  the caller's output buffer (infoLen cells)                  *)
(*   kind, msg how SIBuff1 was produced and, for an encoded block, the     *)
(*             message behind it (bookkeeping, never read by the decoder)  *)
(*   junk      what freshly allocated memory holds                         *)
(*   SIBuff2, BMBuff, PMBuff, SMBuff   the four scratch buffers            *)
(*   written   per scratch buffer and cell: stored to in this call?        *)
(*   uninitRead  a scratch cell was read before it was stored to           *)
(*   dpReads   the SIBuff1 indices dePunct read, in order                  *)
(*   dpWrites  the SIBuff2 indices dePunct stored to, in order             *)
(*   dataLog   the stores to dataBuff, in order: [k, pos, bit]             *)
(*   the rest  the local variables of viterbi() of the same names          *)
(*   call, ret arguments and result of a unit call of a pure function      *)
(*                                                                         *)
(* An action that uses the result of a loop in several places binds it as  *)
(* the element of a one-element set (\E r \in {...}), so that it is         *)
(* computed once.                                                          *)
(***************************************************************************)
VARIABLES pc, infoLen, codeLen, SIBuff1, L, dataBuff, kind, msg, junk,
          numStep, traceLen, SIBuff2, BMBuff, PMBuff, SMBuff,
          written, uninitRead, dpReads, dpWrites, dataLog,
          k, n, old, newpm, writePnt, normAlert, pmOffs,
          pmMax, sMax, s, readPnt, dataPnt,
          call, ret,
          fifo, fresh, hist, hasWritten, nextVal, nreset, res, wr, rd

args == << infoLen, codeLen, SIBuff1, L, kind, msg, junk, numStep, traceLen >>

scratch == << SIBuff2, BMBuff, PMBuff, SMBuff, written, uninitRead, dpReads, dpWrites >>

recur == << n, old, newpm, writePnt, normAlert, pmOffs >>

trace == << pmMax, sMax, s, readPnt, dataPnt, dataBuff, dataLog >>

unit == << call, ret >>

viterbiVars == << pc, args, scratch, k, recur, trace, unit >>

fifoVars == << fifo, fresh, hist, hasWritten, nextVal, nreset, res, wr, rd >>

vars == << viterbiVars, fifoVars >>

\* What uninitialised memory may hold (all zero, or a fill pattern).
JunkVals == {0, 205}

\* new T[size]: the cells hold whatever the allocator hands out.
NewArray(size) == Filled(size, junk)

\* Cell i of an array has been stored to.
IsWritten(map, i) == Rd(map, i, FALSE)

IsWrittenP(map, i) == RdP(map, i, FALSE)

(***************************************************************************)
(* dePunct                                                                 *)
(***************************************************************************)
\* The two copies without the inserted zero.
DePunctStoresNoZero(out, in, nn, p) ==
  St(St(out, p, Rd(in, nn, junk)), p + 1, Rd(in, nn + 1, junk))

\* The stores of one pass of the loop: two samples copied, one zero
\* inserted.
DePunctStores(out, in, nn, p) ==
  St(St(St(out, p, Rd(in, nn, junk)), p + 1, Rd(in, nn + 1, junk)), p + 2, 0)

\* Pass number i of the loop has n = 2*i and p = 3*i.  acc.in is the input
\* buffer, acc.buf the output buffer, acc.wr the output indices stored to
\* so far, acc.rd the input indices read so far.
DePunctBody(acc, i) ==
  [in  |-> acc.in,
   buf |-> DePunctStores(acc.buf, acc.in, 2 * i, 3 * i),
   wr  |-> Append(Append(Append(acc.wr, 3 * i), 3 * i + 1), 3 * i + 2),
   rd  |-> Append(Append(acc.rd, 2 * i), 2 * i + 1)]

\* for ( n = 0; n < codeLen; n+=2 ) { ...; p += 3; } : the passes are those
\* with 2*i < codeLen.
DePunctPasses(len) == (len + 1) \div 2

\* The passes lo .. hi-1 of the loop.
RECURSIVE DePunctLoop(_, _, _)
DePunctLoop(acc, lo, hi) ==
  IF hi <= lo THEN acc
  ELSE IF hi = lo + 1 THEN DePunctBody(acc, lo)
  ELSE LET mid == (lo + hi) \div 2
       IN  CHOOSE r \in {DePunctLoop(left, mid, hi) :
                           left \in {DePunctLoop(acc, lo, mid)}} : TRUE

\* dePunct( codeLen, SIBuff1, SIBuff2 )
dePunct(len, in, out) ==
  DePunctLoop([in |-> in, buf |-> out, wr |-> << >>, rd |-> << >>],
              0, DePunctPasses(len))

(***************************************************************************)
(* viterbi: branch metric loop                                             *)
(***************************************************************************)
\* Every label's metric computed by a call of its own.
StoredBmEachLabel(soft1, soft2) ==
  << branchMetric(soft1, soft2, 0), branchMetric(soft1, soft2, 1),
     branchMetric(soft1, soft2, 2), branchMetric(soft1, soft2, 3) >>

\* The four metrics one pass stores for a pair of soft decisions, the one of
\* label c at place c + 1: label '00' is the negated metric of label '11'
\* and label '10' the negated metric of label '01'.
StoredBm(soft1, soft2) ==
  LET bm3 == branchMetric(soft1, soft2, 3)
      bm1 == branchMetric(soft1, soft2, 1)
  IN  << -bm3, bm1, -bm1, bm3 >>

\* Pass number i of the loop has n = 2*i.  acc.buf is BMBuff, acc.wr its
\* cells stored to, acc.bad records a read of a SIBuff2 cell never stored to.
BMBody(acc, i) ==
  LET nn == 2 * i
      bm == StoredBm(Rd(SIBuff2, nn, junk), Rd(SIBuff2, nn + 1, junk))
  IN  [buf |-> St(St(St(St(acc.buf, 2 * nn, bm[1]), 2 * nn + 3, bm[4]),
                     2 * nn + 1, bm[2]), 2 * nn + 2, bm[3]),
       wr  |-> St(St(St(St(acc.wr, 2 * nn, TRUE), 2 * nn + 3, TRUE),
                     2 * nn + 1, TRUE), 2 * nn + 2, TRUE),
       bad |-> \/ acc.bad
               \/ ~IsWritten(written.SI, nn)
               \/ ~IsWritten(written.SI, nn + 1)]

\* for ( n = 0; n < 2*infoLen-1; n+=2 ) : the passes lo .. hi-1; the loop
\* runs those with 2*i < 2*infoLen-1, that is 0 .. infoLen-1.
RECURSIVE BMLoop(_, _, _)
BMLoop(acc, lo, hi) ==
  IF hi <= lo THEN acc
  ELSE IF hi = lo + 1 THEN BMBody(acc, lo)
  ELSE LET mid == (lo + hi) \div 2
       IN  CHOOSE r \in {BMLoop(left, mid, hi) :
                           left \in {BMLoop(acc, lo, mid)}} : TRUE

(***************************************************************************)
(* viterbi: one butterfly of a recursion step                              *)
(***************************************************************************)
\* The normalization switched on: pmOffs = normAlert ? 256 : 0.
NextPmOffsNormalize == IF normAlert = 1 THEN 256 ELSE 0

\* pmOffs = 0; // DISABLE NORMALIZATION
NextPmOffs == 0

\* One bank updated in place: the new metrics are stored to the old bank.
ButterflyInPlace(acc, s00) ==
  LET s01  == NUM_BUTTERFLIES + s00
      pm00 == Rd(acc.pm, old + s00, junk) - NextPmOffs
      pm01 == Rd(acc.pm, old + s01, junk) - NextPmOffs
      c    == labels[s00 + 1]
      bm   == Rd(BMBuff, n * 4 + c, junk)
      r10  == ACS(pm00, pm01, bm, -bm)
      s10  == 2 * s00
      r11  == ACS(pm00, pm01, -bm, bm)
      s11  == s10 + 1
  IN  [pm  |-> St(St(acc.pm, old + s10, r10.pm), old + s11, r11.pm),
       sm  |-> StP(StP(acc.sm, writePnt + s10, r10.surv),
                   writePnt + s11, r11.surv),
       wpm |-> St(St(acc.wpm, old + s10, TRUE), old + s11, TRUE),
       wsm |-> StP(StP(acc.wsm, writePnt + s10, TRUE), writePnt + s11, TRUE),
       na  |-> IF acc.na = 1 /\ r10.pm > 255 /\ r11.pm > 255 THEN 1 ELSE 0,
       bad |-> acc.bad]

\* acc.pm and acc.sm are PMBuff and SMBuff, acc.wpm and acc.wsm their
\* cells stored to, acc.na is normAlert, acc.bad records a read of a cell
\* never stored to.
\* s01 = NUM_BUTTERFLIES | s00 sets bit 5 of s00 < 32: an addition;
\* s10 = s00 << 1 is a doubling and s11 = s10 | 1 sets the lsb of an even
\* number.  pm00 and pm01 are unsigned differences with pmOffs = 0.
\* normAlert & (pm10 > 255) & (pm11 > 255) is the conjunction of three bits.
Butterfly(acc, s00) ==
  LET s01  == NUM_BUTTERFLIES + s00
      pm00 == Rd(acc.pm, old + s00, junk) - NextPmOffs
      pm01 == Rd(acc.pm, old + s01, junk) - NextPmOffs
      c    == labels[s00 + 1]
      bm   == Rd(BMBuff, n * 4 + c, junk)
      r10  == ACS(pm00, pm01, bm, -bm)
      s10  == 2 * s00
      r11  == ACS(pm00, pm01, -bm, bm)
      s11  == s10 + 1
  IN  [pm  |-> St(St(acc.pm, newpm + s10, r10.pm), newpm + s11, r11.pm),
       sm  |-> StP(StP(acc.sm, writePnt + s10, r10.surv),
                   writePnt + s11, r11.surv),
       wpm |-> St(St(acc.wpm, newpm + s10, TRUE), newpm + s11, TRUE),
       wsm |-> StP(StP(acc.wsm, writePnt + s10, TRUE), writePnt + s11, TRUE),
       na  |-> IF acc.na = 1 /\ r10.pm > 255 /\ r11.pm > 255 THEN 1 ELSE 0,
       bad |-> \/ acc.bad
               \/ ~IsWritten(acc.wpm, old + s00)
               \/ ~IsWritten(acc.wpm, old + s01)
               \/ ~IsWritten(written.BM, n * 4 + c)]

\* for ( s00 = 0; s00 < NUM_BUTTERFLIES; s00++ ) : the butterflies
\* lo .. hi-1.
RECURSIVE ButterflyLoop(_, _, _)
ButterflyLoop(acc, lo, hi) ==
  IF hi <= lo THEN acc
  ELSE IF hi = lo + 1 THEN Butterfly(acc, lo)
  ELSE LET mid == (lo + hi) \div 2
       IN  CHOOSE r \in {ButterflyLoop(left, mid, hi) :
                           left \in {ButterflyLoop(acc, lo, mid)}} : TRUE

(***************************************************************************)
(* viterbi: search for the state with maximum path metric                  *)
(***************************************************************************)
\* The bank the last recursion step read from.
FinalBankStale == newpm

\* The bank the search reads: pm = PMBuff[old+s].
FinalBank == old

\* A later state with an equal metric replaces the earlier one.
FindMaxTestGe(pm, best) == pm >= best

\* if (pm > pmMax)
FindMaxTest(pm, best) == pm > best

FindMaxBody(acc, ss) ==
  LET pm == Rd(PMBuff, FinalBank + ss, junk)
  IN  [pmMax |-> IF FindMaxTest(pm, acc.pmMax) THEN pm ELSE acc.pmMax,
       sMax  |-> IF FindMaxTest(pm, acc.pmMax) THEN ss ELSE acc.sMax,
       bad   |-> acc.bad \/ ~IsWritten(written.PM, FinalBank + ss)]

\* for ( s = 0; s < NUM_STATES; s++ ) : the states lo .. hi-1.
RECURSIVE FindMaxLoop(_, _, _)
FindMaxLoop(acc, lo, hi) ==
  IF hi <= lo THEN acc
  ELSE IF hi = lo + 1 THEN FindMaxBody(acc, lo)
  ELSE LET mid == (lo + hi) \div 2
       IN  CHOOSE r \in {FindMaxLoop(left, mid, hi) :
                           left \in {FindMaxLoop(acc, lo, mid)}} : TRUE

\* pmMax = 0; sMax = 0; and the loop over all states.
FindMaxState ==
  FindMaxLoop([pmMax |-> 0, sMax |-> 0, bad |-> FALSE], 0, NUM_STATES)

(***************************************************************************)
(* The blocks handed to the decoder: encoded messages without and with     *)
(* noise, an all-zero block and a block of extreme samples.                *)
(***************************************************************************)
InfoLens == {m \in STATE_LEN .. MaxInfoLen : m % 3 = 0}

LVals == {l \in {STATE_LEN, STATE_LEN + 1, 2 * STATE_LEN, MaxL} : l <= MaxL}

\* Length of the punctured block: 4 of every 6 code bits are kept.
CodeLenOf(len) == Cardinality({i \in 0 .. 2 * len - 1 : i % 3 # 2})

\* Message number i of a block length: data bit t is MsgBits(len, i)[t + 1].
MsgBits(len, i) ==
  [t \in 1 .. len |-> (((i * 2731) % (2 ^ len)) \div (2 ^ (t - 1))) % 2]

Msgs(len) ==
  {MsgBits(len, i) : i \in 0 .. NumMsgs - 1}
    \cup {[t \in 1 .. len |-> 1 - MsgBits(len, i)[t]] : i \in 0 .. NumMsgs - 1}

\* Code bits on the branch leaving state st with data bit b, as the label
\* c2*2 + c1: the table gives the label of the branch s00 -> s10, and the
\* butterfly uses bm for s00 -> s10 and s01 -> s11, -bm (the complemented
\* label) for s01 -> s10 and s00 -> s11.
BranchLabel(st, b) ==
  LET c == labels[(st % NUM_BUTTERFLIES) + 1]
  IN  IF st \div NUM_BUTTERFLIES = b THEN c ELSE 3 - c

\* Tail-biting encoder: the state before data bit t holds the STATE_LEN
\* previous bits of the (cyclic) message, the newest in the lsb.
EncState(m, len, t) ==
  LET bitAt(j) == m[((t - 1 - j + STATE_LEN * len) % len) + 1]
  IN  bitAt(0) + 2 * bitAt(1) + 4 * bitAt(2) + 8 * bitAt(3)
        + 16 * bitAt(4) + 32 * bitAt(5)

\* Code bit i of the unpunctured block (c1 of a pair is transmitted first).
MotherBit(m, len, i) ==
  LET t   == i \div 2
      lab == BranchLabel(EncState(m, len, t), m[t + 1])
  IN  IF i % 2 = 0 THEN lab % 2 ELSE lab \div 2

\* Puncturing 110110 and antipodal mapping: 1 -> +SoftAmp, 0 -> -SoftAmp.
\* Sample j of the block is Encode(m, len)[j + 1].
Encode(m, len) ==
  [j \in 1 .. CodeLenOf(len) |->
     IF MotherBit(m, len, 3 * ((j - 1) \div 2) + ((j - 1) % 2)) = 1
       THEN SoftAmp ELSE -SoftAmp]

\* An encoded block with a weak wrong sample at every fifth position.
Noisy(e) ==
  [j \in 1 .. Len(e) |-> IF (j - 1) % 5 = 2 THEN -(e[j] \div 50) ELSE e[j]]

Inputs(len) ==
  {[soft |-> Encode(m, len), kind |-> "clean", msg |-> m] : m \in Msgs(len)}
    \cup {[soft |-> Noisy(Encode(m, len)), kind |-> "noisy", msg |-> m] :
            m \in Msgs(len)}
    \cup {[soft |-> Filled(CodeLenOf(len), 0), kind |-> "zero", msg |-> << >>],
          [soft |-> [j \in 1 .. CodeLenOf(len) |->
                       IF j % 2 = 1 THEN SOFT_MAX ELSE SOFT_MIN],
           kind |-> "extreme", msg |-> << >>]}

(***************************************************************************)
(* viterbi()                                                               *)
(***************************************************************************)
(***************************************************************************)
(* FifoWithTimeTrack<T, N>  (buffers.h)                                    *)
(*                                                                         *)
(* A uint64_t or size_t value v is the number v when v is small and the    *)
(* number v - 2^64 when v is within reach of 2^64, so that sums and        *)
(* differences are those of the 64-bit registers; comparisons and          *)
(* remainders go through LessU and ModN.                                   *)
(***************************************************************************)
\* The largest uint64_t value, 2^64 - 1.
UINT64_MAX == -1

\* a < b for unsigned a and b.
LessU(a, b) == IF (a >= 0) = (b >= 0) THEN a < b ELSE b < 0

\* 2^e % m
RECURSIVE Pow2Mod(_, _)
Pow2Mod(e, m) == IF e = 0 THEN 1 % m ELSE (2 * Pow2Mod(e - 1, m)) % m

\* x % N for unsigned x.
ModN(x) ==
  IF x >= 0 THEN x % FifoN ELSE ((x % FifoN) + Pow2Mod(64, FifoN)) % FifoN

\* writePtr(0), timeStart(0), timeEnd(0), rolloverFlag(false), storage(N)
Construct ==
  [writePtr |-> 0, timeStart |-> 0, timeEnd |-> 0, rolloverFlag |-> FALSE,
   storage |-> Filled(FifoN, 0)]

\* The construction of the object; no call has been made.
FifoStart ==
  /\ fifo = Construct
  /\ fresh = Construct
  /\ hist = << >>
  /\ hasWritten = FALSE
  /\ nextVal = 1
  /\ nreset = 0
  /\ res = [op |-> "none"]
  /\ wr = [pc |-> "idle"]
  /\ rd = [pc |-> "idle"]

\* The element of storage that write() copies in[j] to.
WriteSlot(wp, inSize, j) ==
  LET upToTop == FifoN - wp
  IN  IF inSize <= upToTop THEN wp + j
      ELSE IF j < upToTop THEN wp + j ELSE j - upToTop

\* The storage after write() has copied in[from .. to-1].
RECURSIVE CopyIn(_, _, _, _, _)
CopyIn(storage, wp, in, from, to) ==
  IF from >= to THEN storage
  ELSE CopyIn(St(storage, WriteSlot(wp, Len(in), from), in[from + 1]),
              wp, in, from + 1, to)

\* write(): the copies before the critical section.
WriteCopy(f, in) ==
  [f EXCEPT !.storage = CopyIn(f.storage, f.writePtr, in, 0, Len(in))]

\* if((timeEnd - timeStart +1 ) > N) timeStart = timeEnd - N + 1;
\* else timeStart = 1;
WriteTimeStart(ts, te) ==
  IF LessU(FifoN, te - ts + 1) THEN te - FifoN + 1 ELSE 1

\* write(): the critical section.
WriteUpdate(f, inSize) ==
  LET diff  == UINT64_MAX - f.timeEnd
      fits  == ~LessU(diff, inSize)
      te    == IF fits THEN f.timeEnd + inSize ELSE inSize - diff
      flag  == IF fits THEN f.rolloverFlag ELSE TRUE
      diff2 == UINT64_MAX - f.timeStart
      ts    == IF ~flag THEN WriteTimeStart(f.timeStart, te)
               ELSE IF ~LessU(diff2, inSize) THEN f.timeStart + inSize
               ELSE inSize - diff2
  IN  [f EXCEPT !.writePtr = (f.writePtr + inSize) % FifoN,
                !.timeEnd = te,
                !.timeStart = ts,
                !.rolloverFlag = FALSE]

\* write(in)
write(f, in) == WriteUpdate(WriteCopy(f, in), Len(in))

\* if ((start + out.size()-1) > timeEnd) return true;
ReadBeyond(f, last) == LessU(f.timeEnd, last)

\* read(): the critical section.  start is a reference: the caller sees the
\* raised value also when read() returns true.
ReadCheck(f, size, start) ==
  LET st  == IF LessU(start, f.timeStart) THEN f.timeStart ELSE start
      end == st + size - 1
  IN  IF ReadBeyond(f, end)
        THEN [ret |-> TRUE, start |-> st, startPtr |-> 0, endPtr |-> 0]
        ELSE [ret |-> FALSE, start |-> st,
              startPtr |-> ModN(f.writePtr + FifoN - (f.timeEnd - st) - 1),
              endPtr   |-> ModN(f.writePtr + FifoN - (f.timeEnd - end) - 1)]

\* The elements of storage that read() copies, in the order of the copies:
\* startPtr .. endPtr, or startPtr .. N-1 and then 0 .. endPtr.
ReadSlots(startPtr, endPtr) ==
  IF endPtr >= startPtr
    THEN [j \in 1 .. endPtr - startPtr + 1 |-> startPtr + j - 1]
    ELSE [j \in 1 .. FifoN - startPtr |-> startPtr + j - 1]
           \o [j \in 1 .. endPtr + 1 |-> j - 1]

\* out after the copies of the elements slots[from+1 .. to]; a copy past the
\* end of out does not land in it.
RECURSIVE CopyOut(_, _, _, _, _)
CopyOut(out, storage, slots, from, to) ==
  IF from >= to THEN out
  ELSE CopyOut(St(out, from, Rd(storage, slots[from + 1], 0)),
               storage, slots, from + 1, to)

\* read(out, start)
read(f, out, start) ==
  LET c     == ReadCheck(f, Len(out), start)
      slots == ReadSlots(c.startPtr, c.endPtr)
  IN  IF c.ret
        THEN [ret |-> TRUE, start |-> c.start, out |-> out, slots |-> << >>]
        ELSE [ret |-> FALSE, start |-> c.start,
              out |-> CopyOut(out, f.storage, slots, 0, Len(slots)),
              slots |-> slots]

\* count()
count(f) ==
  IF ~f.rolloverFlag THEN (f.timeEnd - f.timeStart) + 1
  ELSE (UINT64_MAX - f.timeStart) + f.timeEnd + 1

\* A reset that leaves the write position where it is.
resetKeepsPtr(f) ==
  [f EXCEPT !.timeStart = 0, !.timeEnd = 0, !.rolloverFlag = FALSE]

\* reset()
reset(f) ==
  [f EXCEPT !.writePtr = 0, !.timeStart = 0, !.timeEnd = 0,
            !.rolloverFlag = FALSE]

(***************************************************************************)
(* viterbi: the lengths                                                    *)
(***************************************************************************)
\* A recursion that stops after infoLen + L steps.
NumStepOfShort(len, l) == len + l

\* numStep = infoLen + 2*L
NumStepOf(len, l) == len + 2 * l

\* traceLen = infoLen + L - STATE_LEN
TraceLenOf(len, l) == len + l - STATE_LEN

\* No call is running.
Idle ==
  /\ pc = "idle"
  /\ infoLen = 0 /\ codeLen = 0 /\ SIBuff1 = << >> /\ L = 0
  /\ dataBuff = << >> /\ kind = "none" /\ msg = << >>
  /\ numStep = 0 /\ traceLen = 0
  /\ SIBuff2 = << >> /\ BMBuff = << >> /\ PMBuff = << >> /\ SMBuff = << >>
  /\ written = [SI |-> << >>, BM |-> << >>, PM |-> << >>, SM |-> << >>]
  /\ uninitRead = FALSE /\ dpReads = << >> /\ dpWrites = << >>
  /\ dataLog = << >>
  /\ k = 0 /\ n = 0 /\ old = 0 /\ newpm = 0 /\ writePnt = 0
  /\ normAlert = 0 /\ pmOffs = 0
  /\ pmMax = 0 /\ sMax = 0 /\ s = 0 /\ readPnt = 0 /\ dataPnt = 0

Init ==
  /\ Idle
  /\ junk \in JunkVals
  /\ call = [op |-> "none"]
  /\ ret = [op |-> "none"]
  /\ FifoStart

\* Entry: parameters that depend on L, allocation, de-puncturing.
\* The call viterbi(infoLen, codeLen, SIBuff1, L, dataBuff) with infoLen in
\* lens and L in ls: the allocations and dePunct.
EnterWith(lens, ls) ==
  /\ pc = "idle"
  /\ \E len \in lens, l \in ls :
       \E in \in Inputs(len) :
         \E dp \in {dePunct(CodeLenOf(len), in.soft, NewArray(2 * len))} :
             /\ infoLen' = len
             /\ codeLen' = CodeLenOf(len)
             /\ SIBuff1' = in.soft
             /\ L' = l
             /\ kind' = in.kind
             /\ msg' = in.msg
             /\ dataBuff' = NewArray(len)
             /\ numStep' = NumStepOf(len, l)
             /\ traceLen' = TraceLenOf(len, l)
             /\ SIBuff2' = dp.buf
             /\ BMBuff' = NewArray(4 * len)
             /\ PMBuff' = NewArray(2 * NUM_STATES)
             /\ SMBuff' = FilledP(len + l - STATE_LEN, junk)
             /\ written' =
                  [SI |-> [i \in 1 .. 2 * len |->
                             \E j \in 1 .. Len(dp.wr) : dp.wr[j] = i - 1],
                   BM |-> Filled(4 * len, FALSE),
                   PM |-> Filled(2 * NUM_STATES, FALSE),
                   SM |-> FilledP(len + l - STATE_LEN, FALSE)]
             /\ dpReads' = dp.rd
             /\ dpWrites' = dp.wr
  /\ pc' = "metrics"
  /\ UNCHANGED << junk, uninitRead, dataLog, k, recur, pmMax, sMax, s,
                  readPnt, dataPnt, unit, fifoVars >>

\* The calls of the model.
Enter == EnterWith(InfoLens, LVals)

\* The calls with the shortest blocks and the smallest latencies.
EnterShort ==
  EnterWith({len \in InfoLens : len <= ShortInfoLen},
            {l \in LVals : l <= ShortL})

\* Compute branch metrics (6-bit signed numbers).
BranchMetrics ==
  /\ pc = "metrics"
  /\ \E r \in {BMLoop([buf |-> BMBuff, wr |-> written.BM, bad |-> FALSE],
                   0, infoLen)} :
         /\ BMBuff' = r.buf
         /\ written' = [written EXCEPT !.BM = r.wr]
         /\ uninitRead' = (uninitRead \/ r.bad)
  /\ pc' = "pminit"
  /\ UNCHANGED << args, SIBuff2, PMBuff, SMBuff, dpReads, dpWrites, k, recur,
                  trace, unit, fifoVars >>

\* No initialization.
PMInitBodySkip(acc, ss) == acc

\* PMBuff[s] = 0;  acc.pm is PMBuff, acc.wpm its cells stored to.
PMInitBody(acc, ss) ==
  [pm |-> St(acc.pm, ss, 0), wpm |-> St(acc.wpm, ss, TRUE)]

\* for (s = 0; s < NUM_STATES; s++) : the states lo .. hi-1.
RECURSIVE PMInitLoop(_, _, _)
PMInitLoop(acc, lo, hi) ==
  IF hi <= lo THEN acc
  ELSE IF hi = lo + 1 THEN PMInitBody(acc, lo)
  ELSE LET mid == (lo + hi) \div 2
       IN  CHOOSE r \in {PMInitLoop(left, mid, hi) :
                           left \in {PMInitLoop(acc, lo, mid)}} : TRUE

\* Path metric initialization and the set-up of the recursion.
InitPathMetrics ==
  /\ pc = "pminit"
  /\ old' = 0
  /\ newpm' = NUM_STATES
  /\ \E r \in {PMInitLoop([pm |-> PMBuff, wpm |-> written.PM],
                          0, NUM_STATES)} :
         /\ PMBuff' = r.pm
         /\ written' = [written EXCEPT !.PM = r.wpm]
  /\ n' = 0
  /\ writePnt' = 0
  /\ normAlert' = 0
  /\ k' = 0
  /\ pc' = "recursion"
  /\ UNCHANGED << args, SIBuff2, BMBuff, SMBuff, uninitRead, dpReads, dpWrites,
                  pmOffs, trace, unit, fifoVars >>

\* The time index stepped up without the wrap.
NextTimeIndexNoWrap == n + 1

\* n++; if (n == infoLen) n = 0;
NextTimeIndex == IF n + 1 = infoLen THEN 0 ELSE n + 1

\* The write pointer stepped up from step L on.
NextWritePntFromL == IF k >= L THEN writePnt + NUM_STATES ELSE writePnt

\* if (k >= L+STATE_LEN) writePnt += NUM_STATES;
NextWritePnt ==
  IF k >= L + STATE_LEN THEN writePnt + NUM_STATES ELSE writePnt

\* One decoding step: 32 butterflies, bank swap, time index, write pointer.
RecursionStep ==
  /\ pc = "recursion"
  /\ k < numStep
  /\ \E r \in {ButterflyLoop(
                   [pm |-> PMBuff, sm |-> SMBuff, wpm |-> written.PM,
                    wsm |-> written.SM, na |-> 1, bad |-> FALSE],
                   0, NUM_BUTTERFLIES)} :
         /\ PMBuff' = r.pm
         /\ SMBuff' = r.sm
         /\ written' = [written EXCEPT !.PM = r.wpm, !.SM = r.wsm]
         /\ uninitRead' = (uninitRead \/ r.bad)
         /\ normAlert' = r.na
  /\ pmOffs' = NextPmOffs
  /\ old' = newpm
  /\ newpm' = old
  /\ n' = NextTimeIndex
  /\ writePnt' = NextWritePnt
  /\ k' = k + 1
  /\ pc' = IF k + 1 < numStep THEN "recursion" ELSE "findmax"
  /\ UNCHANGED << args, SIBuff2, BMBuff, dpReads, dpWrites, trace, unit, fifoVars >>

\* The first bit released goes to the top of the data buffer.
DataPntStartTop == infoLen - 1

\* dataPnt = L - 1; // pointer to next write position in data buffer
DataPntStart == L - 1

\* Find the state with maximum path metric and set up the traceback.
FindMax ==
  /\ pc = "findmax"
  /\ \E r \in {FindMaxState} :
         /\ pmMax' = r.pmMax
         /\ sMax' = r.sMax
         /\ s' = r.sMax
         /\ uninitRead' = (uninitRead \/ r.bad)
  /\ readPnt' = (traceLen - 1) * NUM_STATES
  /\ dataPnt' = DataPntStart
  /\ k' = 0
  /\ pc' = "traceback"
  /\ UNCHANGED << args, SIBuff2, BMBuff, PMBuff, SMBuff, written, dpReads,
                  dpWrites, recur, dataBuff, dataLog, unit, fifoVars >>

(***************************************************************************)
(* viterbi: traceback                                                      *)
(***************************************************************************)
\* bit = (unsigned) SMBuff[readPnt+s]
TraceBit == RdP(SMBuff, readPnt + s, junk)

\* The previous state with the meaning of the survivor bit inverted.
TracePrevFlipped(bit, st) == BitOr(Shl(1 - bit, STATE_LEN - 1), Shr(st, 1))

\* s = (bit << (STATE_LEN-1)) | (s >> 1)
TracePrev(bit, st) == BitOr(Shl(bit, STATE_LEN - 1), Shr(st, 1))

\* if (k >= L-STATE_LEN): an unsigned comparison; for L < STATE_LEN the
\* difference wraps to at least 2^32 - STATE_LEN, which no k reaches.
Releases == L >= STATE_LEN /\ k >= L - STATE_LEN

\* The decrement without the wrap.
DataPntNextNoWrap == dataPnt - 1

\* if (dataPnt == 0) dataPnt = infoLen - 1; else dataPnt--;
DataPntNext == IF dataPnt = 0 THEN infoLen - 1 ELSE dataPnt - 1

\* What every traceback step does besides the store to dataBuff.  After the
\* last step readPnt is below 0 here: the C value is that number modulo
\* 2^32, and it is never used.
TraceAdvance ==
  /\ pc = "traceback"
  /\ k < traceLen
  /\ s' = TracePrev(TraceBit, s)
  /\ uninitRead' = (uninitRead \/ ~IsWrittenP(written.SM, readPnt + s))
  /\ dataPnt' = IF Releases THEN DataPntNext ELSE dataPnt
  /\ dataLog' = IF Releases
                  THEN Append(dataLog, [k |-> k, pos |-> dataPnt, bit |-> TraceBit])
                  ELSE dataLog
  /\ readPnt' = readPnt - NUM_STATES
  /\ k' = k + 1
  /\ pc' = IF k + 1 < traceLen THEN "traceback" ELSE "done"
  /\ UNCHANGED << args, SIBuff2, BMBuff, PMBuff, SMBuff, written, dpReads,
                  dpWrites, recur, pmMax, sMax, unit, fifoVars >>

\* The store dataBuff[dataPnt] = bit of this step would fall outside the
\* caller's buffer.
StoreOutside == Releases /\ ~InArray(dataBuff, dataPnt)

\* A traceback step that releases nothing or stores inside dataBuff.
TraceStep ==
  /\ ~StoreOutside
  /\ TraceAdvance
  /\ dataBuff' = IF Releases THEN St(dataBuff, dataPnt, TraceBit) ELSE dataBuff

\* A store past the end of dataBuff is undefined: the store may land in the
\* memory behind the buffer and the call goes on ...
TraceStepOverrun ==
  /\ StoreOutside
  /\ TraceAdvance
  /\ dataBuff' = dataBuff

\* ... or the call may be stopped by the fault.
TraceStepFault ==
  /\ pc = "traceback"
  /\ k < traceLen
  /\ StoreOutside
  /\ pc' = "fault"
  /\ UNCHANGED << args, scratch, k, recur, trace, unit, fifoVars >>

Next ==
  \/ Enter
  \/ BranchMetrics
  \/ InitPathMetrics
  \/ RecursionStep
  \/ FindMax
  \/ TraceStep
  \/ TraceStepOverrun
  \/ TraceStepFault

Spec == Init /\ [][Next]_vars

\* The calls of short blocks only.
NextShort ==
  \/ EnterShort
  \/ BranchMetrics
  \/ InitPathMetrics
  \/ RecursionStep
  \/ FindMax
  \/ TraceStep
  \/ TraceStepOverrun
  \/ TraceStepFault

\* The decoder on short blocks: the properties that look into all 64 states
\* at every step are checked here.
SpecShort == Init /\ [][NextShort]_vars

\* A call that has been entered runs on: viterbi() has no wait, no lock and
\* no input besides its arguments, so the thread that called it keeps taking
\* the next step of the function until the function is left.
SpecFair == Init /\ [][NextShort]_vars /\ WF_vars(NextShort)

(***************************************************************************)
(* Unit calls of the pure functions.                                       *)
(***************************************************************************)

SoftRange == SOFT_MIN .. SOFT_MAX

UnitPms == (0 .. MaxUnitPm) \cup (PM_TOP - MaxUnitPm .. PM_TOP)

UnitBms == -MaxUnitBm .. MaxUnitBm

InitUnit ==
  /\ Idle
  /\ junk = 0
  /\ FifoStart
  /\ \/ \E a, b \in SoftRange :
          call = [op |-> "branchMetric", soft1 |-> a, soft2 |-> b]
     \/ \E p0, p1 \in UnitPms, b0, b1 \in UnitBms :
          call = [op |-> "ACS", pm00 |-> p0, pm01 |-> p1, bm0 |-> b0, bm1 |-> b1]
  /\ ret = [op |-> "none"]

\* branchMetric( soft1, soft2, label ) for each of the four labels, with the
\* intermediate values of each call, and the four metrics the branch metric
\* loop stores for the pair (soft1, soft2).
CallBranchMetric ==
  /\ call.op = "branchMetric"
  /\ ret.op = "none"
  /\ ret' = [op  |-> "branchMetric",
             raw |-> [l \in 0 .. 3 |-> BranchMetricRaw(call.soft1, call.soft2, l)],
             rnd |-> [l \in 0 .. 3 |->
                        BranchMetricRound(BranchMetricRaw(call.soft1, call.soft2, l))],
             bm  |-> [l \in 0 .. 3 |-> branchMetric(call.soft1, call.soft2, l)],
             stored |-> [l \in 0 .. 3 |->
                           StoredBm(call.soft1, call.soft2)[l + 1]]]
  /\ UNCHANGED << pc, args, scratch, k, recur, trace, call, fifoVars >>

\* pm = ACS( pm00, pm01, bm0, bm1, &surv )
CallACS ==
  /\ call.op = "ACS"
  /\ ret.op = "none"
  /\ \E r \in {ACS(call.pm00, call.pm01, call.bm0, call.bm1)} :
       ret' = [op |-> "ACS", pm |-> r.pm, surv |-> r.surv]
  /\ UNCHANGED << pc, args, scratch, k, recur, trace, call, fifoVars >>

NextUnit == CallBranchMetric \/ CallACS

SpecUnit == InitUnit /\ [][NextUnit]_vars

(***************************************************************************)
(* FifoWithTimeTrack: calls made one after the other.                      *)
(*                                                                         *)
(* The values written are 1, 2, 3, ... so that no two of them are equal.   *)
(* hist holds the values written since the construction or the last reset: *)
(* hist[t] is the value of time point t.  fresh is a second object,        *)
(* constructed at the moment of the last reset, that is given every call   *)
(* made since.                                                             *)
(***************************************************************************)
InitFifo ==
  /\ Idle
  /\ junk = 0
  /\ call = [op |-> "none"]
  /\ ret = [op |-> "none"]
  /\ FifoStart

\* The next m values.
NextVals(m) == [j \in 1 .. m |-> nextVal + j - 1]

\* What out holds before the call.
OutBefore(size) == Filled(size, -1)

\* The start values of the reads.
Starts == 0 .. MaxVal + 1 \cup {UINT64_MAX}

\* fifo.write(in) with fewer than N values.
FifoWrite ==
  /\ \E m \in 0 .. FifoN - 1 :
       /\ nextVal + m - 1 <= MaxVal
       /\ fifo' = write(fifo, NextVals(m))
       /\ fresh' = write(fresh, NextVals(m))
       /\ hist' = hist \o NextVals(m)
       /\ nextVal' = nextVal + m
       /\ res' = [op |-> "write", inSize |-> m]
  /\ hasWritten' = TRUE
  /\ UNCHANGED << viterbiVars, nreset, wr, rd >>

\* fifo.read(out, start) with out.size() != 0.
FifoRead ==
  /\ \E size \in 1 .. FifoN, start \in Starts :
       res' = [op |-> "read", size |-> size, start |-> start,
               r |-> read(fifo, OutBefore(size), start),
               fr |-> read(fresh, OutBefore(size), start)]
  /\ UNCHANGED << viterbiVars, fifo, fresh, hist, hasWritten, nextVal, nreset,
                  wr, rd >>

\* fifo.count()
FifoCount ==
  /\ res' = [op |-> "count", n |-> count(fifo), fn |-> count(fresh)]
  /\ UNCHANGED << viterbiVars, fifo, fresh, hist, hasWritten, nextVal, nreset,
                  wr, rd >>

\* fifo.reset()
FifoReset ==
  /\ nreset < MaxResets
  /\ fifo' = reset(fifo)
  /\ fresh' = Construct
  /\ hist' = << >>
  /\ hasWritten' = FALSE
  /\ nreset' = nreset + 1
  /\ res' = [op |-> "reset"]
  /\ UNCHANGED << viterbiVars, nextVal, wr, rd >>

NextFifo ==
  \/ FifoWrite
  \/ FifoRead
  \/ FifoCount
  \/ FifoReset

SpecFifo == InitFifo /\ [][NextFifo]_vars

(***************************************************************************)
(* FifoWithTimeTrack: one thread that calls write() and one thread that    *)
(* calls read().                                                           *)
(*                                                                         *)
(* A critical section is one step: the mutex lets no step of the other     *)
(* thread's critical section in between.  The copies outside the critical  *)
(* sections are one step for each element.  Every write adds at least one  *)
(* value and every start is at least 1, so that each read made alone       *)
(* returns what was written.                                               *)
(***************************************************************************)
\* The writer enters write(in): upToTop and inSize are read.
WriterCall ==
  /\ wr.pc = "idle"
  /\ \E m \in 1 .. FifoN - 1 :
       /\ nextVal + m - 1 <= MaxVal
       /\ wr' = [pc |-> "copy", in |-> NextVals(m), wp |-> fifo.writePtr, i |-> 0]
       /\ nextVal' = nextVal + m
  /\ UNCHANGED << viterbiVars, fifo, fresh, hist, hasWritten, nreset, res, rd >>

\* std::copy of write(): the next element.
WriterCopy ==
  /\ wr.pc = "copy"
  /\ wr.i < Len(wr.in)
  /\ fifo' = [fifo EXCEPT !.storage =
                CopyIn(fifo.storage, wr.wp, wr.in, wr.i, wr.i + 1)]
  /\ wr' = [wr EXCEPT !.i = wr.i + 1]
  /\ UNCHANGED << viterbiVars, fresh, hist, hasWritten, nextVal, nreset, res, rd >>

\* The critical section of write() and the return.
WriterUpdate ==
  /\ wr.pc = "copy"
  /\ wr.i = Len(wr.in)
  /\ fifo' = WriteUpdate(fifo, Len(wr.in))
  /\ hist' = hist \o wr.in
  /\ hasWritten' = TRUE
  /\ wr' = [pc |-> "idle"]
  /\ UNCHANGED << viterbiVars, fresh, nextVal, nreset, res, rd >>

\* The values of the time points from .. from+size-1 as they were written.
Written(from, size) ==
  [j \in 1 .. size |->
     IF from + j - 1 \in DOMAIN hist THEN hist[from + j - 1] ELSE 0]

\* The reader enters read(out, start): the critical section; an error
\* returns at once.
ReaderCall ==
  /\ rd.pc = "idle"
  /\ \E size \in 1 .. FifoN, start \in 1 .. MaxVal :
       \E c \in {ReadCheck(fifo, size, start)} :
         IF c.ret
           THEN /\ res' = [op |-> "read", ret |-> TRUE, start |-> c.start,
                           out |-> OutBefore(size),
                           expect |-> OutBefore(size)]
                /\ rd' = rd
           ELSE /\ rd' = [pc |-> "copy", start |-> c.start,
                          slots |-> ReadSlots(c.startPtr, c.endPtr),
                          out |-> OutBefore(size), i |-> 0,
                          expect |-> Written(c.start, size)]
                /\ res' = [op |-> "reading"]
  /\ UNCHANGED << viterbiVars, fifo, fresh, hist, hasWritten, nextVal, nreset, wr >>

\* std::copy of read(): the next element.
ReaderCopy ==
  /\ rd.pc = "copy"
  /\ rd.i < Len(rd.slots)
  /\ rd' = [rd EXCEPT !.out = CopyOut(rd.out, fifo.storage, rd.slots,
                                      rd.i, rd.i + 1),
                      !.i = rd.i + 1]
  /\ UNCHANGED << viterbiVars, fifo, fresh, hist, hasWritten, nextVal, nreset,
                  res, wr >>

\* return false
ReaderReturn ==
  /\ rd.pc = "copy"
  /\ rd.i = Len(rd.slots)
  /\ res' = [op |-> "read", ret |-> FALSE, start |-> rd.start,
             out |-> rd.out, expect |-> rd.expect]
  /\ rd' = [pc |-> "idle"]
  /\ UNCHANGED << viterbiVars, fifo, fresh, hist, hasWritten, nextVal, nreset, wr >>

NextThreads ==
  \/ WriterCall
  \/ WriterCopy
  \/ WriterUpdate
  \/ ReaderCall
  \/ ReaderCopy
  \/ ReaderReturn

SpecThreads == InitFifo /\ [][NextThreads]_vars

(***************************************************************************)
(* Properties.                                                             *)
(***************************************************************************)
\* The call's block lengths are in the puncture ratio: 4 samples of the
\* punctured block for every 3 data bits.
ValidPair == infoLen > 0 /\ 3 * codeLen = 4 * infoLen

\* A call has been entered.
Started == pc # "idle"

\* The recursion is over and the best state has been chosen.
Chosen == pc \in {"traceback", "done", "fault"}

\* Final path metric of state ss: the bank the last recursion step stored
\* to is the one `old` names after that step's swap.
FinalPm(ss) == PMBuff[old + ss + 1]

\* C1: noiseless round trip.  A block encoded from a message by the
\* tail-biting encoder of the label table, punctured 110110 and mapped to
\* +/-SoftAmp, decoded with L >= 12, gives back the message.
C1_RoundTrip ==
  (pc = "done" /\ kind = "clean" /\ L >= 2 * STATE_LEN) => dataBuff = msg

\* The round trip where the traceback stays inside the output buffer: for
\* L <= infoLen the decoded noiseless block is the message, for every L
\* tried.
RoundTripInside ==
  (pc = "done" /\ kind = "clean" /\ L <= infoLen) => dataBuff = msg

\* C2: output cardinality.  In a call with infoLen > 0, codeLen in the
\* puncture ratio and L >= 6, every store of the traceback goes to an index
\* in 0..infoLen-1 with a value 0 or 1, no index is stored to twice, the
\* call returns, and at the return infoLen indices have been stored to.
C2_OutputCardinality ==
  (Started /\ ValidPair /\ L >= STATE_LEN) =>
    /\ \A j \in 1 .. Len(dataLog) :
         dataLog[j].pos \in 0 .. infoLen - 1 /\ dataLog[j].bit \in {0, 1}
    /\ \A i, j \in 1 .. Len(dataLog) :
         i # j => dataLog[i].pos # dataLog[j].pos
    /\ pc = "done" => Len(dataLog) = infoLen
    /\ pc # "fault"

\* C3 as stated: on an all-zero block the best state is 0 and the decoded
\* output is all zeros.
C3_ZeroOutput ==
  (kind = "zero" /\ pc = "done") =>
    sMax = 0 /\ dataBuff = Filled(infoLen, 0)

\* C3, amended: on an all-zero block every branch metric and every final
\* path metric is 0, the best state is 0, and every bit the traceback
\* releases is 1; with L <= infoLen the returned output is infoLen ones.
C3_ZeroInput ==
  kind = "zero" =>
    /\ pc \notin {"idle", "metrics"} =>
         \A i \in 1 .. Len(BMBuff) : BMBuff[i] = 0
    /\ Chosen =>
         /\ \A ss \in 0 .. NUM_STATES - 1 : FinalPm(ss) = 0
         /\ sMax = 0
         /\ pmMax = 0
    /\ \A j \in 1 .. Len(dataLog) : dataLog[j].bit = 1
    /\ (pc = "done" /\ L <= infoLen) => dataBuff = Filled(infoLen, 1)

C3_Witness ==
  /\ kind = "zero" /\ pc = "done" /\ L <= infoLen
  /\ sMax = 0
  /\ dataBuff = Filled(infoLen, 1)

\* C4: no scratch cell is read before the call has stored to it, whatever
\* the allocator left in the buffers; and when the call returns (L <=
\* infoLen) every cell of the output holds a bit the traceback released,
\* none what was in memory before.
C4_NoUninitRead ==
  /\ ~uninitRead
  /\ (pc = "done" /\ L <= infoLen) =>
       \A i \in 1 .. infoLen :
         \E j \in 1 .. Len(dataLog) :
           /\ dataLog[j].pos = i - 1
           /\ dataLog[j].bit = dataBuff[i]
           /\ dataBuff[i] \in {0, 1}

C4_Witness ==
  /\ pc = "done" /\ L <= infoLen /\ kind = "noisy"
  /\ junk = 205
  /\ ~uninitRead
  /\ \A i \in 1 .. infoLen : dataBuff[i] \in {0, 1}

\* C5: ACS returns survivor 0 and metric pm00+bm0 exactly when
\* pm00+bm0 > pm01+bm1; otherwise, equal candidates included, survivor 1
\* and metric pm01+bm1.  The metric is the greater candidate, and
\* ACS(pm, pm, bm, bm) returns survivor 1.
C5_ACSTieBreak ==
  ret.op = "ACS" =>
    LET cm0 == call.pm00 + call.bm0
        cm1 == call.pm01 + call.bm1
    IN  /\ cm0 > cm1 => (ret.surv = 0 /\ ret.pm = cm0)
        /\ cm0 <= cm1 => (ret.surv = 1 /\ ret.pm = cm1)
        /\ ret.pm >= cm0 /\ ret.pm >= cm1
        /\ (call.pm00 = call.pm01 /\ call.bm0 = call.bm1) => ret.surv = 1

C5_Witness ==
  /\ ret.op = "ACS"
  /\ call.pm00 = call.pm01 /\ call.bm0 = call.bm1
  /\ call.bm0 < 0
  /\ ret.surv = 1
  /\ ret.pm = call.pm01 + call.bm1

\* C6: the chosen state sMax is the lowest-indexed state among those with
\* the greatest final path metric, the metrics being those of the bank the
\* last recursion step stored to, and pmMax is that metric.
C6_BestState ==
  Chosen =>
    /\ sMax \in 0 .. NUM_STATES - 1
    /\ \A ss \in 0 .. NUM_STATES - 1 : FinalPm(ss) <= FinalPm(sMax)
    /\ \A ss \in 0 .. sMax - 1 : FinalPm(ss) < FinalPm(sMax)
    /\ pmMax = FinalPm(sMax)

C6_Witness ==
  /\ pc = "traceback" /\ k = 0
  /\ kind = "noisy"
  /\ sMax > 0
  /\ pmMax = FinalPm(sMax)
  /\ \E ss \in 0 .. NUM_STATES - 1 : FinalPm(ss) < pmMax

\* C7 as stated: the metric of label 3 is the negated metric of label 0,
\* and the metric of label 1 the negated metric of label 2.
C7_Symmetry ==
  ret.op = "branchMetric" =>
    /\ ret.bm[3] = -ret.bm[0]
    /\ ret.bm[1] = -ret.bm[2]

\* C7, amended: the metrics of labels 3 and 0 (and of labels 1 and 2) add
\* up to 0 or 1; the sum is 1 exactly when the unrounded metric is 2 modulo
\* 4 and neither rounded metric is outside [-31, 31].
C7_NearSymmetry ==
  ret.op = "branchMetric" =>
    \A pair \in {<<3, 0>>, <<1, 2>>} :
      LET a == pair[1]
          b == pair[2]
      IN  /\ ret.raw[b] = -ret.raw[a]
          /\ ret.bm[a] + ret.bm[b] =
               IF /\ ret.raw[a] % 4 = 2
                  /\ ret.rnd[a] \in -BM_SAT .. BM_SAT
                  /\ ret.rnd[b] \in -BM_SAT .. BM_SAT
                 THEN 1 ELSE 0

C7_Witness ==
  /\ ret.op = "branchMetric"
  /\ call.soft1 = 1 /\ call.soft2 = 1
  /\ ret.bm[3] = 1
  /\ ret.bm[0] = 0

\* C8: for soft inputs in [-128, 127] and every label the branch metric
\* is in [-31, 31]; (127, 127) with label 3 gives 31 and (-128, -128) with
\* label 3 gives -31.
C8_Saturation ==
  ret.op = "branchMetric" =>
    /\ \A l \in 0 .. 3 : ret.bm[l] \in -BM_SAT .. BM_SAT
    /\ (call.soft1 = SOFT_MAX /\ call.soft2 = SOFT_MAX) => ret.bm[3] = BM_SAT
    /\ (call.soft1 = SOFT_MIN /\ call.soft2 = SOFT_MIN) => ret.bm[3] = -BM_SAT

C8_Witness ==
  /\ ret.op = "branchMetric"
  /\ call.soft1 = SOFT_MAX /\ call.soft2 = SOFT_MAX
  /\ ret.rnd[3] > BM_SAT
  /\ ret.bm[3] = BM_SAT

\* C9: for block lengths in the puncture ratio dePunct stores to the
\* indices 0, 1, ..., 2*infoLen-1 of the de-punctured buffer, in that order
\* and each once, with output[3i] = input[2i], output[3i+1] = input[2i+1]
\* and output[3i+2] = 0, and it reads only input indices below codeLen.
C9_DePunctLength ==
  (Started /\ ValidPair) =>
    /\ Len(SIBuff2) = 2 * infoLen
    /\ Len(dpWrites) = 2 * infoLen
    /\ \A j \in 1 .. Len(dpWrites) : dpWrites[j] = j - 1
    /\ \A j \in 1 .. Len(dpReads) : dpReads[j] \in 0 .. codeLen - 1
    /\ \A i \in 0 .. (codeLen \div 2) - 1 :
         /\ SIBuff2[3 * i + 1] = SIBuff1[2 * i + 1]
         /\ SIBuff2[3 * i + 2] = SIBuff1[2 * i + 2]
         /\ SIBuff2[3 * i + 3] = 0

C9_Witness ==
  /\ pc = "metrics" /\ ValidPair
  /\ kind = "extreme" /\ junk = 205
  /\ infoLen = 2 * STATE_LEN
  /\ Len(dpWrites) = 2 * infoLen
  /\ SIBuff2[1] = SOFT_MAX /\ SIBuff2[2] = SOFT_MIN /\ SIBuff2[3] = 0

\* C10: with 6 <= L <= infoLen, traceback steps 0 .. L-7 store nothing;
\* each later step stores one bit: the L steps from step L-6 on store to
\* positions L-1, L-2, ..., 0 in that order, the last infoLen-L steps to
\* positions infoLen-1 down to L; at the return infoLen bits are stored.
C10_ReleaseOrder ==
  (Started /\ L >= STATE_LEN /\ L <= infoLen) =>
    /\ traceLen = infoLen + L - STATE_LEN
    /\ \A j \in 1 .. Len(dataLog) :
         /\ dataLog[j].k = L - STATE_LEN + j - 1
         /\ dataLog[j].pos = IF j <= L THEN L - j ELSE infoLen + L - j
    /\ pc = "traceback" =>
         Len(dataLog) = IF k > L - STATE_LEN THEN k - (L - STATE_LEN) ELSE 0
    /\ pc = "done" => Len(dataLog) = infoLen
    /\ pc # "fault"

C10_Witness ==
  /\ pc = "done"
  /\ L = STATE_LEN + 1 /\ infoLen = 2 * STATE_LEN
  /\ Len(dataLog) = infoLen
  /\ dataLog[1].k = 1 /\ dataLog[1].pos = L - 1
  /\ dataLog[L].pos = 0
  /\ dataLog[L + 1].pos = infoLen - 1
  /\ dataLog[infoLen].pos = L

\* Number of recursion steps carried out so far in the call.
StepsDone ==
  IF pc = "recursion" THEN k
  ELSE IF pc \in {"findmax", "traceback", "done", "fault"} THEN numStep
  ELSE 0

\* The path metrics stored so far in the call, both banks.
StoredPms == {PMBuff[i] : i \in {j \in 1 .. Len(PMBuff) : written.PM[j]}}

StepBm(s00) == Rd(BMBuff, n * 4 + labels[s00 + 1], junk)

\* The two ACS calls of butterfly s00 of the pending recursion step, made
\* on the old bank as it is before the step (no butterfly stores to it).
StepCalls(s00) ==
  LET pm00 == Rd(PMBuff, old + s00, junk) - NextPmOffs
      pm01 == Rd(PMBuff, old + NUM_BUTTERFLIES + s00, junk) - NextPmOffs
  IN  << ACS(pm00, pm01, StepBm(s00), -StepBm(s00)),
         ACS(pm00, pm01, -StepBm(s00), StepBm(s00)) >>

\* C12: in every ACS call of every recursion step the selected candidate
\* metric is at least 0, and so is every metric stored: the conversion to
\* unsigned never meets a negative value.
C12_NonNegative ==
  /\ pc = "recursion" =>
       \A s00 \in 0 .. NUM_BUTTERFLIES - 1 :
         StepCalls(s00)[1].pm >= 0 /\ StepCalls(s00)[2].pm >= 0
  /\ \A pm \in StoredPms : pm >= 0

\* A first step: all metrics 0, one candidate of the call negative, the
\* other one selected.
C12_Witness ==
  /\ pc = "recursion" /\ k = 0 /\ kind = "noisy"
  /\ \E s00 \in 0 .. NUM_BUTTERFLIES - 1 :
       /\ StepBm(s00) < 0
       /\ StepCalls(s00)[1] = [pm |-> -StepBm(s00), surv |-> 1]
       /\ StepCalls(s00)[2] = [pm |-> -StepBm(s00), surv |-> 0]

\* The greater of two candidate metrics and the survivor bit that goes
\* with it (0 only for a strictly greater first candidate).
Winner(cm0, cm1) ==
  IF cm0 > cm1 THEN [pm |-> cm0, surv |-> 0] ELSE [pm |-> cm1, surv |-> 1]

\* What a recursion step must store for the states 2*s00 and 2*s00+1 when
\* the old-bank metrics enter the comparison as they are stored.
Unnormalized(s00) ==
  LET p0 == PMBuff[old + s00 + 1]
      p1 == PMBuff[old + NUM_BUTTERFLIES + s00 + 1]
  IN  << Winner(p0 + StepBm(s00), p1 - StepBm(s00)),
         Winner(p0 - StepBm(s00), p1 + StepBm(s00)) >>

\* C13: every recursion step runs with pmOffs = 0: the new bank and the
\* survivor row it stores are those computed from the stored old-bank
\* metrics unchanged, whatever normAlert was before the step, and nothing
\* else in the buffers changes.
C13_NormalizationOff ==
  [][(pc = "recursion" /\ k' = k + 1) =>
       /\ pmOffs' = 0
       /\ \A s00 \in 0 .. NUM_BUTTERFLIES - 1 :
            /\ PMBuff'[newpm + 2 * s00 + 1] = Unnormalized(s00)[1].pm
            /\ PMBuff'[newpm + 2 * s00 + 2] = Unnormalized(s00)[2].pm
            /\ RdP(SMBuff', writePnt + 2 * s00, junk) = Unnormalized(s00)[1].surv
            /\ RdP(SMBuff', writePnt + 2 * s00 + 1, junk) = Unnormalized(s00)[2].surv
       /\ \A ss \in 0 .. NUM_STATES - 1 : PMBuff'[old + ss + 1] = PMBuff[old + ss + 1]
       /\ BMBuff' = BMBuff
  ]_vars

\* The alert has been raised by two steps in a row (both banks above 255
\* throughout) and the offset of the step between them was 0.
C13_Witness ==
  /\ pc = "recursion" /\ k >= 2
  /\ normAlert = 1
  /\ pmOffs = 0
  /\ \A i \in 1 .. Len(PMBuff) : PMBuff[i] > 255

\* The buffers bufs hold, for the two states of butterfly s00, the results
\* of its two ACS calls made on the buffers as the step finds them, before
\* any other butterfly has stored anything.
SameAsAlone(bufs, s00) ==
  \E alone \in {StepCalls(s00)} :
    /\ Rd(bufs.pm, newpm + 2 * s00, junk) = alone[1].pm
    /\ RdP(bufs.sm, writePnt + 2 * s00, junk) = alone[1].surv
    /\ Rd(bufs.pm, newpm + 2 * s00 + 1, junk) = alone[2].pm
    /\ RdP(bufs.sm, writePnt + 2 * s00 + 1, junk) = alone[2].surv

Ended == pc \in {"done", "fault"}

\* What one step of a call does to the loop counters.
CountedStep ==
  /\ pc' = "recursion" /\ pc # "recursion" => k' = 0
  /\ pc = "recursion" => /\ k' = k + 1
                         /\ k' <= infoLen + 2 * L
                         /\ pc' = IF k' = infoLen + 2 * L THEN "findmax"
                                                          ELSE "recursion"
  /\ pc = "findmax" => pc' = "traceback" /\ k' = 0
  /\ pc = "traceback" /\ pc' # "fault" =>
         /\ k' = k + 1
         /\ k' <= infoLen + L - STATE_LEN
         /\ pc' = IF k' = infoLen + L - STATE_LEN THEN "done" ELSE "traceback"
  /\ pc' = "fault" => pc = "traceback" /\ L > infoLen

Held == {t \in DOMAIN hist : t > Len(hist) - FifoN}

\* The time points from .. from+size-1 are all held.
RangeHeld(from, size) == \A j \in 0 .. size - 1 : from + j \in Held

\* The time bounds of the object are those of the values it holds.
TimesRight ==
  /\ fifo.timeEnd = Len(hist)
  /\ fifo.timeStart = IF Len(hist) > FifoN THEN Len(hist) - FifoN + 1 ELSE 1

\* C16: a read that returns false on a FIFO written at least once fills out
\* with the values of the time points s .. s+out.size()-1, s being start
\* after it has been raised to timeStart.
C16_ReadRange ==
  (res.op = "read" /\ hasWritten /\ ~res.r.ret) =>
      /\ \A j \in 0 .. res.size - 1 : res.r.start + j \in DOMAIN hist
      /\ res.r.out = Written(res.r.start, res.size)

\* The same for the reads with a start below 2^63 made while the time bounds
\* of the object are right.
ReadRangeTimesRight ==
  (res.op = "read" /\ hasWritten /\ ~res.r.ret /\ TimesRight
     /\ res.start >= 0) =>
      /\ RangeHeld(res.r.start, res.size)
      /\ res.r.out = Written(res.r.start, res.size)

\* C17: a read whose range, after start has been raised to timeStart, is
\* not made of held values only returns true and leaves out as it was.
C17_ReadError ==
  (res.op = "read" /\ ~RangeHeld(res.r.start, res.size)) =>
      /\ res.r.ret
      /\ res.r.out = OutBefore(res.size)

\* The same for the reads with a start below 2^63 made after a write, while
\* the time bounds of the object are right.
ReadErrorTimesRight ==
  (res.op = "read" /\ ~RangeHeld(res.r.start, res.size) /\ hasWritten
     /\ TimesRight /\ res.start >= 0) =>
      /\ res.r.ret
      /\ res.r.out = OutBefore(res.size)

\* C18: count() returns the number of values held: the number of values
\* written or N, whichever is smaller, and 0 when nothing has been written.
C18_Count ==
  res.op = "count" =>
      res.n = IF Len(hist) < FifoN THEN Len(hist) ELSE FifoN

\* The same after a write, while the time bounds of the object are right.
CountTimesRight ==
  (res.op = "count" /\ hasWritten /\ TimesRight) =>
      res.n = IF Len(hist) < FifoN THEN Len(hist) ELSE FifoN

\* The time bounds are right after every write unless an empty write has
\* been made on a FIFO that has taken more than N values.
TimesRightUnlessEmptyWrite ==
  [][(res'.op = "write" /\ (TimesRight \/ ~hasWritten)
        /\ ~(res'.inSize = 0 /\ Len(hist) > FifoN)) => TimesRight']_vars

(***************************************************************************)
(* C19: one writer thread and one reader thread                            *)
(***************************************************************************)
\* C19: a read that returns false while the writer runs delivers the values
\* of its time points as they were written.
C19_ConcurrentRead ==
  (res.op = "read" /\ ~res.ret) => res.out = res.expect

(***************************************************************************)
(* C20: reset()                                                            *)
(***************************************************************************)
\* The results of the last call are those of the same call on the object
\* constructed at the last reset.
SameAsFresh ==
  /\ res.op = "read" =>
        /\ res.r.ret = res.fr.ret
        /\ res.r.start = res.fr.start
        /\ Len(res.r.out) = Len(res.fr.out)
        /\ \A j \in 1 .. res.size :
              res.r.start + j - 1 \in DOMAIN hist =>
                  res.r.out[j] = res.fr.out[j]
  /\ res.op = "count" => res.n = res.fn
  /\ fifo.writePtr = fresh.writePtr
  /\ fifo.timeStart = fresh.timeStart
  /\ fifo.timeEnd = fresh.timeEnd
  /\ fifo.rolloverFlag = fresh.rolloverFlag

\* C20: after reset() every call gives the results it gives on a freshly
\* constructed FIFO given the same calls, and reset() leaves the contents of
\* the storage as they are.
C20_ResetAsFresh ==
  /\ [](SameAsFresh)
  /\ [][nreset' = nreset + 1 => fifo'.storage = fifo.storage]_vars

\* After a reset of a FIFO whose storage holds earlier values, values written
\* since have been read back.
C20_Witness ==
  /\ nreset >= 1
  /\ res.op = "read"
  /\ ~res.r.ret
  /\ res.r.start >= 1
  /\ res.r.out = Written(res.r.start, res.size)
  /\ \E i \in 1 .. FifoN : fifo.storage[i] # fresh.storage[i]

LabelOf(c1, c2) == c2 * 2 + c1

\* The pairs of labels that differ only in the code bit at position pos
\* (1 or 2) of the pair, the label with that bit 0 first.
LabelsApart(pos) ==
  IF pos = 1 THEN {<< LabelOf(0, c2), LabelOf(1, c2) >> : c2 \in 0 .. 1}
             ELSE {<< LabelOf(c1, 0), LabelOf(c1, 1) >> : c1 \in 0 .. 1}

\* C28 as stated: when one soft decision of a pair is the placeholder 0,
\* the stored metrics of two labels that differ only in the code bit at
\* that position are equal.
C28_ErasedBit ==
  ret.op = "branchMetric" =>
    /\ call.soft1 = 0 =>
         \A p \in LabelsApart(1) : ret.stored[p[1]] = ret.stored[p[2]]
    /\ call.soft2 = 0 =>
         \A p \in LabelsApart(2) : ret.stored[p[1]] = ret.stored[p[2]]

\* C28, amended: the placeholder adds 0 to the unrounded metric of every
\* label.  With the placeholder second in the pair the stored metrics of
\* the two labels are equal.  With the placeholder first the stored metric
\* of the label with code bit 1 is that of the label with code bit 0 plus
\* 0 or 1: plus 1 exactly when the other soft decision is 2 modulo 4 and
\* within [-125, 125], so that no rounded metric is outside [-31, 31].
C28_ErasedBitNearlyNull ==
  ret.op = "branchMetric" =>
    /\ call.soft1 = 0 =>
         \A p \in LabelsApart(1) :
           /\ ret.raw[p[1]] = ret.raw[p[2]]
           /\ ret.stored[p[2]] - ret.stored[p[1]] =
                IF call.soft2 % 4 = 2 /\ call.soft2 \in -125 .. 125
                  THEN 1 ELSE 0
    /\ call.soft2 = 0 =>
         \A p \in LabelsApart(2) :
           /\ ret.raw[p[1]] = ret.raw[p[2]]
           /\ ret.stored[p[1]] = ret.stored[p[2]]

C28_Witness ==
  /\ ret.op = "branchMetric"
  /\ call.soft1 = 0 /\ call.soft2 = 2
  /\ ret.stored[0] = -1
  /\ ret.stored[1] = 0

(***************************************************************************)
(* C27: stored branch metrics under label complement                       *)
(***************************************************************************)
\* C27: once the branch metric loop has run, every cell of BMBuff has been
\* stored to and BMBuff[4n + (3-c)] = -BMBuff[4n + c] for every time index
\* n and every label c; in every butterfly of every recursion step the
\* metric -bm of the transitions s00 -> s11 and s01 -> s10 is the stored
\* metric of the complement of the label of s00 -> s10.
C27_NegatedStored ==
  /\ pc = "pminit" =>
       \A nn \in 0 .. infoLen - 1 : \A c \in 0 .. 3 :
         /\ IsWritten(written.BM, 4 * nn + c)
         /\ Rd(BMBuff, 4 * nn + (3 - c), junk) = -Rd(BMBuff, 4 * nn + c, junk)
  /\ pc = "recursion" =>
       \A s00 \in 0 .. NUM_BUTTERFLIES - 1 :
         Rd(BMBuff, n * 4 + (3 - labels[s00 + 1]), junk) = -StepBm(s00)

\* A stored metric of label '00' that a call of branchMetric with label 0
\* would not have given.
C27_Witness ==
  /\ pc = "pminit"
  /\ \E nn \in 0 .. infoLen - 1 :
       /\ Rd(BMBuff, 4 * nn, junk) # 0
       /\ Rd(BMBuff, 4 * nn + 3, junk) = -Rd(BMBuff, 4 * nn, junk)
       /\ Rd(BMBuff, 4 * nn, junk) #
            branchMetric(Rd(SIBuff2, 2 * nn, junk),
                         Rd(SIBuff2, 2 * nn + 1, junk), 0)

(***************************************************************************)
(* C25: the time index of the recursion                                    *)
(***************************************************************************)
\* C25: at the start of recursion step k the time index n is k modulo
\* infoLen, and every branch metric the step reads, BMBuff[4*n + label], is
\* a cell in [0, 4*infoLen) that the branch metric loop has stored to.
C25_TimeIndexWrap ==
  pc = "recursion" =>
    /\ n = k % infoLen
    /\ \A label \in 0 .. 3 :
         /\ 4 * n + label \in 0 .. 4 * infoLen - 1
         /\ InArray(BMBuff, 4 * n + label)
         /\ IsWritten(written.BM, 4 * n + label)
    /\ \A s00 \in 0 .. NUM_BUTTERFLIES - 1 : labels[s00 + 1] \in 0 .. 3

\* A step whose time index has wrapped three times: 2*L exceeds infoLen.
C25_Witness ==
  /\ pc = "recursion"
  /\ 2 * L > infoLen
  /\ k >= 3 * infoLen
  /\ n > 0
  /\ n = k - 3 * infoLen

(***************************************************************************)
(* C22: the rows of the survivor memory                                    *)
(***************************************************************************)
\* The row recursion step kk stores its survivor bits to.
RowOfStep(kk) == IF kk > L + STATE_LEN THEN kk - (L + STATE_LEN) ELSE 0

\* Row r of the survivor memory and of the record of its cells stored to.
SurvivorRow(buf, r) == buf[r + 1]

\* Every cell of row r has been stored to.
RowComplete(wsm, r) ==
  \A c \in 0 .. NUM_STATES - 1 : IsWrittenP(wsm, r * NUM_STATES + c)

\* A recursion step stores to every cell of its row and to no other row.
StoresItsRow ==
  pc = "recursion" =>
    /\ RowComplete(written.SM', RowOfStep(k))
    /\ \A r \in 0 .. traceLen - 1 :
         r # RowOfStep(k) =>
           /\ SurvivorRow(SMBuff', r) = SurvivorRow(SMBuff, r)
           /\ SurvivorRow(written.SM', r) = SurvivorRow(written.SM, r)

\* The write pointer is at the row of the step, a row of the buffer.
WriteRow ==
  pc = "recursion" =>
    /\ writePnt = NUM_STATES * RowOfStep(k)
    /\ RowOfStep(k) < traceLen
    /\ Len(SMBuff) = traceLen

\* When the traceback starts every row is complete; the last step that
\* stored to row r is step L+6+r, so the last step of all stored to row
\* traceLen-1 and the bits of steps 0 .. L+5 are gone.
RowsAtTraceback ==
  pc = "findmax" =>
    /\ writePnt = NUM_STATES * traceLen
    /\ \A r \in 0 .. traceLen - 1 :
         /\ RowComplete(written.SM, r)
         /\ \A kk \in 0 .. numStep - 1 :
              RowOfStep(kk) = r => kk <= L + STATE_LEN + r
         /\ RowOfStep(L + STATE_LEN + r) = r
    /\ L + STATE_LEN + (traceLen - 1) = numStep - 1

\* Traceback step k reads row traceLen-1-k, a row of the buffer.
ReadRow ==
  pc = "traceback" =>
    /\ k \in 0 .. traceLen - 1
    /\ readPnt = NUM_STATES * (traceLen - 1 - k)
    /\ InArrayP(SMBuff, readPnt + s)
    /\ IsWrittenP(written.SM, readPnt + s)

\* C22: recursion step k stores its 64 survivor bits to row
\* max(0, k-(L+6)), a row below traceLen, and to no other row; when the
\* traceback starts row r holds the bits of step L+6+r; traceback step k
\* reads row traceLen-1-k, so the rows traceLen-1 down to 0 are read once
\* each and no read is outside the buffer.
C22_SurvivorRows ==
  /\ [](WriteRow /\ RowsAtTraceback /\ ReadRow)
  /\ [][StoresItsRow]_vars

\* The last traceback step of a call, reading row 0, which the recursion
\* stored to L+7 times.
C22_Witness ==
  /\ pc = "traceback"
  /\ k = traceLen - 1
  /\ readPnt = 0
  /\ traceLen > 1
  /\ RowOfStep(L + STATE_LEN) = 0
  /\ RowComplete(written.SM, 0)

(***************************************************************************)
(* C23: traceback steps and data bit positions                             *)
(***************************************************************************)
\* The recursion step whose survivor bits traceback step j reads: row
\* traceLen-1-j holds the bits of step L+6+(traceLen-1-j).
StepReadAt(j) == L + STATE_LEN + (traceLen - 1 - j)

\* C23: every bit stored at a position p of the data buffer was read from
\* the survivor row of a recursion step kk with (kk - 6) mod infoLen = p,
\* and the bit at position p when the call is done is the bit logged for p.
C23_Alignment ==
  /\ \A j \in 1 .. Len(dataLog) :
       InArray(dataBuff, dataLog[j].pos) =>
         /\ StepReadAt(dataLog[j].k) \in L + STATE_LEN .. numStep - 1
         /\ RowOfStep(StepReadAt(dataLog[j].k)) = traceLen - 1 - dataLog[j].k
         /\ (StepReadAt(dataLog[j].k) - STATE_LEN) % infoLen = dataLog[j].pos
  /\ pc = "done" =>
       \A j \in 1 .. Len(dataLog) :
         InArray(dataBuff, dataLog[j].pos) =>
           dataBuff[dataLog[j].pos + 1] = dataLog[j].bit

\* A call with L < infoLen that is done: the bit at the top position
\* infoLen-1 was released after the write position had wrapped and comes
\* from step infoLen+5.
C23_Witness ==
  /\ pc = "done"
  /\ L < infoLen
  /\ Len(dataLog) = infoLen
  /\ \E j \in 1 .. Len(dataLog) :
       /\ j > L
       /\ dataLog[j].pos = infoLen - 1
       /\ StepReadAt(dataLog[j].k) = infoLen + STATE_LEN - 1

(***************************************************************************)
(* C24: the traceback follows the recorded survivors                       *)
(***************************************************************************)
\* The candidate metric of the path that enters state t from state p in the
\* pending recursion step: butterfly t >> 1 adds bm on its transitions
\* s00 -> s10 and s01 -> s11 and -bm on the other two.
PredCand(t, p) ==
  Rd(PMBuff, old + p, junk) - NextPmOffs
    + (IF (p < NUM_BUTTERFLIES) = (t % 2 = 0)
         THEN StepBm(t \div 2) ELSE -StepBm(t \div 2))

\* The survivor bit a recursion step stores for state t is 0 or 1; the state
\* the traceback reconstructs from it is one of the two left states of the
\* butterfly of t, its candidate is the metric stored for t and is not below
\* the other candidate; the bit is 0 exactly when the candidate from
\* t >> 1 is the larger one.
RecordsWinner ==
  pc = "recursion" =>
    \A t \in 0 .. NUM_STATES - 1 :
      LET b == RdP(SMBuff', writePnt + t, junk)
          p == TracePrev(b, t)
          q == (p + NUM_BUTTERFLIES) % NUM_STATES
      IN  /\ b \in {0, 1}
          /\ p = IF b = 0 THEN t \div 2 ELSE NUM_BUTTERFLIES + t \div 2
          /\ Rd(PMBuff', newpm + t, junk) = PredCand(t, p)
          /\ PredCand(t, p) >= PredCand(t, q)
          /\ b = 0 <=>
               PredCand(t, t \div 2) > PredCand(t, NUM_BUTTERFLIES + t \div 2)

\* A traceback step goes from s to the state named by the bit read for s,
\* and s is a right state of the butterfly of that state.
FollowsSurvivor ==
  (pc = "traceback" /\ pc' # "fault") =>
    /\ TraceBit \in {0, 1}
    /\ s' = IF TraceBit = 0 THEN s \div 2 ELSE NUM_BUTTERFLIES + s \div 2
    /\ s \in {2 * (s' % NUM_BUTTERFLIES), 2 * (s' % NUM_BUTTERFLIES) + 1}

\* C24: during the traceback the state is in 0..63; with survivor bit b
\* read for state s the next state is (b<<5)|(s>>1), the left state of the
\* butterfly of s whose candidate won the ACS for s when the row was
\* stored: s>>1 for b = 0 and 32|(s>>1) for b = 1.
C24_FollowsSurvivors ==
  /\ []((pc \in {"traceback", "done"}) => s \in 0 .. NUM_STATES - 1)
  /\ [][RecordsWinner /\ FollowsSurvivor]_vars

\* A traceback step on a noisy block that reads bit 1 and moves to the
\* lower left state of the butterfly.
C24_Witness ==
  /\ pc = "traceback"
  /\ kind = "noisy"
  /\ k > 0
  /\ TraceBit = 1
  /\ TracePrev(TraceBit, s) = NUM_BUTTERFLIES + s \div 2
  /\ s % 2 = 1

(***************************************************************************)
(* C29: the two banks in one recursion step                                *)
(***************************************************************************)
\* The buffers of the pending recursion step with no cell marked as stored
\* to: what a butterfly marks on them is what that butterfly stores.
StepUnmarked ==
  [pm |-> PMBuff, sm |-> SMBuff,
   wpm |-> Filled(2 * NUM_STATES, FALSE), wsm |-> FilledP(traceLen, FALSE),
   na |-> 1, bad |-> FALSE]

\* The cells of PMBuff that butterfly s00 stores to.
PmStoresOf(s00) ==
  \* the cells marked by the butterfly
  LET r == Butterfly(StepUnmarked, s00)
  IN  {i \in 0 .. 2 * NUM_STATES - 1 : IsWritten(r.wpm, i)}

\* The cells of SMBuff that butterfly s00 stores to.
SmStoresOf(s00) ==
  \* the cells marked by the butterfly
  LET r == Butterfly(StepUnmarked, s00)
  IN  {i \in 0 .. traceLen * NUM_STATES - 1 : IsWrittenP(r.wsm, i)}

\* The cells of a bank or of a survivor row that starts at cell base.
SlotsFrom(base) == base .. base + NUM_STATES - 1

\* The 32 sets of stores are pairwise disjoint two-cell sets that cover the
\* 64 cells from base on: every cell is stored to exactly once.
EachSlotOnce(stores, base) ==
  /\ \A s00 \in 0 .. NUM_BUTTERFLIES - 1 :
       stores[s00] = {base + 2 * s00, base + 2 * s00 + 1}
  /\ \A a, b \in 0 .. NUM_BUTTERFLIES - 1 :
       a # b => stores[a] \cap stores[b] = {}
  /\ UNION {stores[s00] : s00 \in 0 .. NUM_BUTTERFLIES - 1} = SlotsFrom(base)

\* C29: in one recursion step the 32 butterflies store to each cell of the
\* new path metric bank and to each cell of the current survivor row
\* exactly once, butterfly s00 to the cells of 2*s00 and 2*s00+1; no cell
\* of the old bank changes; the banks are the two halves of PMBuff and are
\* swapped after the step, so the next step reads the bank just stored.
C29_BankDiscipline ==
  [][(pc = "recursion" /\ k' = k + 1) =>
       /\ \E pst \in {[s00 \in 0 .. NUM_BUTTERFLIES - 1 |-> PmStoresOf(s00)]} :
            EachSlotOnce(pst, newpm)
       /\ \E sst \in {[s00 \in 0 .. NUM_BUTTERFLIES - 1 |-> SmStoresOf(s00)]} :
            EachSlotOnce(sst, writePnt)
       /\ \A i \in SlotsFrom(old) : PMBuff'[i + 1] = PMBuff[i + 1]
       /\ \A i \in SlotsFrom(newpm) : IsWritten(written.PM', i)
       /\ {old, newpm} = {0, NUM_STATES}
       /\ old' = newpm
       /\ newpm' = old
  ]_vars

\* After a step on a noisy block the bank to be read next holds metrics
\* that differ from those of the bank read before in every state.
C29_Witness ==
  /\ pc = "recursion"
  /\ k >= 2
  /\ kind = "noisy"
  /\ old = NUM_STATES
  /\ \A ss \in 0 .. NUM_STATES - 1 :
       PMBuff[old + ss + 1] # PMBuff[newpm + ss + 1]

(***************************************************************************)
(* C21: the recursion finds the best path into every state                 *)
(***************************************************************************)
\* The paths whose metrics are summed one by one are those of at most this
\* many transitions: with STATE_LEN transitions a path into a state can
\* start in any of the 64 states.
MaxPathLen == 6

\* The larger of two numbers and the largest element of a set of numbers.
Larger(a, b) == IF a >= b THEN a ELSE b

Largest(S) == CHOOSE x \in S : \A y \in S : y <= x

\* The trellis: from state p the data bit b leads to state (2p + b) mod 64;
\* the two states that lead to t are t >> 1 and 32 | (t >> 1), with data
\* bit t & 1.
TrellisNext(p, b) == (2 * p + b) % NUM_STATES

TrellisPreds(t) == {t \div 2, NUM_BUTTERFLIES + t \div 2}

\* The two are the same trellis.
TrellisPredsRight ==
  pc = "pminit" =>
    \A t \in 0 .. NUM_STATES - 1 :
      TrellisPreds(t) =
        {p \in 0 .. NUM_STATES - 1 : TrellisNext(p, t % 2) = t}

\* The metric of the transition from state p into state t as transition
\* number j (from 0) of a path: the stored branch metric of the label of
\* the transition at time index j mod infoLen.
TransMetric(p, t, j) ==
  Rd(BMBuff, 4 * (j % infoLen) + BranchLabel(p, t % 2), junk)

\* The metric sums of all paths of j transitions that end in state t.
RECURSIVE PathSums(_, _)
PathSums(j, t) ==
  IF j = 0 THEN {0}
  ELSE UNION {{x + TransMetric(p, t, j - 1) : x \in PathSums(j - 1, p)} :
                p \in TrellisPreds(t)}

\* The largest metric sum of the paths of j transitions into each state,
\* from the largest sums of the paths of j-1 transitions.
RECURSIVE BestSums(_)
BestSums(j) ==
  IF j = 0 THEN [t \in 0 .. NUM_STATES - 1 |-> 0]
  ELSE CHOOSE best \in
         {[t \in 0 .. NUM_STATES - 1 |->
             Largest({prev[p] + TransMetric(p, t, j - 1) : p \in TrellisPreds(t)})] :
          prev \in {BestSums(j - 1)}} : TRUE

\* The bank that the next step reads holds the largest sums.
BankIsBest ==
  (pc \in {"recursion", "findmax"}) =>
    \E best \in {BestSums(k)} :
      \A t \in 0 .. NUM_STATES - 1 : Rd(PMBuff, old + t, junk) = best[t]

\* For the short paths the largest sum is taken over the paths themselves.
BankIsBestOfPaths ==
  (pc = "recursion" /\ k <= MaxPathLen) =>
    \A t \in 0 .. NUM_STATES - 1 :
      Rd(PMBuff, old + t, junk) = Largest(PathSums(k, t))

\* The survivor bit stored for state t in step k names the state before t
\* on a best path of k+1 transitions into t.
SurvivorIsBest ==
  (pc = "recursion" /\ k' = k + 1) =>
    \E before \in {BestSums(k)} :
      \E after \in {BestSums(k + 1)} :
        \A t \in 0 .. NUM_STATES - 1 :
          LET b == RdP(SMBuff', writePnt + t, junk)
              p == b * NUM_BUTTERFLIES + t \div 2
          IN  /\ b \in {0, 1}
              /\ p \in TrellisPreds(t)
              /\ before[p] + TransMetric(p, t, k) = after[t]

\* C21: after k recursion steps the path metric of state s is the largest
\* sum of branch metrics over all trellis paths of k transitions that end
\* in s, the metric of transition j being taken at time index j mod
\* infoLen, and the survivor bit stored for s names a state before s on
\* such a path.
C21_Optimality ==
  /\ [](TrellisPredsRight /\ BankIsBest /\ BankIsBestOfPaths)
  /\ [][SurvivorIsBest]_vars

\* Six steps into a noisy block: some state is entered by paths of at least
\* three different metric sums and holds the largest of them, which is not
\* the metric of every state.
C21_Witness ==
  /\ pc = "recursion"
  /\ k = STATE_LEN
  /\ kind = "noisy"
  /\ \E t \in 0 .. NUM_STATES - 1 :
       /\ Cardinality(PathSums(k, t)) >= 3
       /\ PMBuff[old + t + 1] = Largest(PathSums(k, t))
       /\ PMBuff[old + t + 1] # PMBuff[old + 1]

(***************************************************************************)
(* C30: the time window of the FIFO                                        *)
(***************************************************************************)
\* The write pointer is a slot of the storage and timeEnd is the number of
\* values written since the construction or the last reset.
PtrAndEndRight ==
  /\ fifo.writePtr \in 0 .. FifoN - 1
  /\ fifo.timeEnd = Len(hist)

\* C30: after any calls of write (fewer than N values each), read and
\* reset, writePtr < N and timeEnd is the number of values written since
\* the construction or the last reset; once a value has been written
\* timeStart = max(1, timeEnd - N + 1), the time point of the earliest
\* value held, and timeEnd - timeStart + 1 is at most N.
C30_TimeWindow ==
  /\ PtrAndEndRight
  /\ Len(hist) > 0 =>
       /\ fifo.timeStart = Larger(1, fifo.timeEnd - FifoN + 1)
       /\ fifo.timeStart = Largest({1} \cup Held) - (Cardinality(Held) - 1)
       /\ fifo.timeEnd - fifo.timeStart + 1 <= FifoN

=============================================================================
